---- MODULE Spec2Model ----
(***************************************************************************)
(* EduFlow: the Pomodoro timer state machine (PomodoroManager) with its    *)
(* session stats, the task, flashcard and mood managers, and the Storage   *)
(* wrapper they are persisted with.                                        *)
(*                                                                         *)
(* The DOM is taken to be present (index.html defines every element the    *)
(* managers look up). Of what is displayed, the task list, the header     *)
(* count and the pomodoro task selector are state (dom); the other         *)
(* display-only calls (updateDisplay, updateTimerCircle, the pomodoro      *)
(* updateStats, AchievementSystem.show, alert, the calendar, dashboard,    *)
(* card and mood views) change no state that is modelled here; where one   *)
(* of them throws, the call it is part of throws.                          *)
(***************************************************************************)
EXTENDS Integers, Sequences, FiniteSets, TLC

VARIABLES
    pm,        \* the PomodoroManager object: time, interval, isRunning, currentMode, stats
    timers,    \* the browser's table of live setInterval handles
    store,     \* localStorage: key -> raw stored text
    setItemThrows, \* whether localStorage.setItem throws (quota exceeded)
    modeLog,   \* history: the modes of a run of consecutive expiries
    tm,        \* the TaskManager object: tasks, currentFilter
    fm,        \* the FlashcardManager object: flashcards, currentCardIndex
    mm,        \* the MoodManager object: moodHistory
    dom,       \* what taskList, headerTasks and the pomodoroTask selector display
    now,       \* the clock: the instant Date.now() and new Date() give
    scope      \* the section the page is used through

vars == <<pm, timers, store, setItemThrows, modeLog, tm, fm, mm, dom, now, scope>>

\* ------------------------------------------------------------------ bounds

\* Work completions are cut off once pomodoroCount reaches this value.
MaxPomodoros == 5

\* Number of modes the history variable records.
MaxLog == 8

\* The clock runs from 0 to this instant.
MaxClock == 1

\* Tasks are added while the collection is shorter than this.
MaxTasks == 2

\* Flashcards are added while the collection is shorter than this.
MaxCards == 2

\* Cards are reviewed while every review count is below this.
MaxReviews == 2

\* Moods are recorded while the history is shorter than this.
MaxMoods == 2

\* The mood buttons are clicked while the history is shorter than this.
MaxHistory == 6

\* ------------------------------------------------------------- constants

SecondsPerMinute == 60

TASKS == "eduflow_tasks"
FLASHCARDS == "eduflow_flashcards"
USER == "eduflow_user"
MOODS == "eduflow_moods"
POMODORO_STATS == "eduflow_pomodoro"

StorageKeys == {TASKS, FLASHCARDS, USER, MOODS, POMODORO_STATS}

Modes == {"focus", "short", "long"}

\* this.modes: the default duration of each mode, in minutes.
modes ==
    [focus |-> [time |-> 25], short |-> [time |-> 5], long |-> [time |-> 15]]

\* this.stats as the constructor sets it, before load().
defaultStats ==
    [pomodoroCount |-> 0, totalFocusTime |-> 0, bestStreak |-> 0, currentStreak |-> 0]

Max(a, b) == IF a >= b THEN a ELSE b

\* ---------------------------------------------------------------- Storage

\* Raw localStorage entries: no entry, text JSON.parse rejects, or the
\* JSON text of a value.
Missing == [kind |-> "missing"]
Corrupt == [kind |-> "corrupt"]
JSONstringify(v) == [kind |-> "json", val |-> v]

Null == [kind |-> "null"]
Value(v) == [kind |-> "value", val |-> v]

\* Storage.get whose catch answers an empty list instead of null.
StorageGet_emptyListOnError(st, key) ==
    CASE st[key].kind = "json" -> Value(st[key].val)
      [] st[key].kind = "corrupt" -> Value(<<>>)
      [] OTHER -> Null

\* Storage.get: the parsed value, or null for a missing entry or when
\* JSON.parse throws.
StorageGet(st, key) ==
    IF st[key].kind = "json" THEN Value(st[key].val) ELSE Null

\* Storage.set whose failed write leaves a truncated, unparsable entry.
StorageSet_corruptsOnFailure(st, throws, key, value) ==
    [st EXCEPT ![key] = IF throws THEN Corrupt ELSE JSONstringify(value)]

\* Storage.set: writes the JSON text; a throwing setItem is caught and the
\* entry is left as it was.
StorageSet(st, throws, key, value) ==
    IF throws THEN st ELSE [st EXCEPT ![key] = JSONstringify(value)]

\* The effects of one call, in the order the call makes them: every
\* Storage.set and every render of a manager's data is noted with the data
\* it wrote or read.
Logged(w, effect, key, data) ==
    [w EXCEPT !.log = Append(@, [effect |-> effect, key |-> key, data |-> data])]

\* -------------------------------------------------------- PomodoroManager

\* { ...this.stats, ...savedStats }: saved fields override, the others keep
\* their defaults, fields only the saved record has are carried along.
MergeStats(base, saved) ==
    [f \in (DOMAIN base) \cup (DOMAIN saved) |->
        IF f \in DOMAIN saved THEN saved[f] ELSE base[f]]

\* load(): merge the persisted record into the default stats, if there is one.
load(st) ==
    LET savedStats == StorageGet(st, POMODORO_STATS)
    IN  IF savedStats.kind = "value"
        THEN MergeStats(defaultStats, savedStats.val)
        ELSE defaultStats

\* save()
save(w) ==
    Logged([w EXCEPT !.store =
                StorageSet(w.store, w.throws, POMODORO_STATS, w.pm.stats)],
           "save", POMODORO_STATS, w.pm.stats)

\* PomodoroManager.updateStats(): the count, the minutes, the focus score
\* and the best streak shown are read from this.stats.
PomodoroManager_updateStats(w) ==
    Logged(w, "render", POMODORO_STATS, w.pm.stats)

\* setMode(mode, minutes)
setMode(w, mode, minutes) ==
    [w EXCEPT !.pm.currentMode = mode,
              !.pm.time = minutes * SecondsPerMinute]

\* setInterval returns a handle no live timer has.
NewTimerId(live) ==
    CHOOSE i \in 1..(Cardinality(live) + 1) :
        i \notin live /\ \A j \in 1..(i - 1) : j \in live

\* start() without its isRunning guard: every call sets a new interval.
start_noGuard(w) ==
    LET id == NewTimerId(w.timers)
    IN  [w EXCEPT !.pm.isRunning = TRUE,
                  !.pm.interval = id,
                  !.timers = @ \cup {id}]

\* start()
start(w) ==
    IF w.pm.isRunning
    THEN w
    ELSE LET id == NewTimerId(w.timers)
         IN  [w EXCEPT !.pm.isRunning = TRUE,
                       !.pm.interval = id,
                       !.timers = @ \cup {id}]

\* pause() that only drops the flag and leaves the interval live.
pause_noClear(w) ==
    [w EXCEPT !.pm.isRunning = FALSE]

\* pause() that also puts the countdown back to the mode's default.
pause_resetsTime(w) ==
    [w EXCEPT !.pm.isRunning = FALSE,
              !.timers = @ \ {w.pm.interval},
              !.pm.time = modes[w.pm.currentMode].time * SecondsPerMinute]

\* pause(): clearInterval of a handle that is not live (or of null) does nothing.
pause(w) ==
    [w EXCEPT !.pm.isRunning = FALSE,
              !.timers = @ \ {w.pm.interval}]

\* reset() that also ends the current streak.
reset_breaksStreak(w) ==
    LET p == pause(w)
    IN  [p EXCEPT !.pm.time = modes[p.pm.currentMode].time * SecondsPerMinute,
                  !.pm.stats.currentStreak = 0]

\* reset()
reset(w) ==
    LET p == pause(w)
    IN  [p EXCEPT !.pm.time = modes[p.pm.currentMode].time * SecondsPerMinute]

\* The stats update without the currentStreak increment.
focusCompleted_noStreak(s) ==
    LET s1 == [s EXCEPT !.pomodoroCount = @ + 1,
                        !.totalFocusTime = @ + modes["focus"].time]
    IN  [s1 EXCEPT !.bestStreak = Max(@, s1.currentStreak)]

\* The stats update taking the maximum before currentStreak is incremented.
focusCompleted_bestFirst(s) ==
    [s EXCEPT !.pomodoroCount = @ + 1,
              !.totalFocusTime = @ + modes["focus"].time,
              !.currentStreak = @ + 1,
              !.bestStreak = Max(@, s.currentStreak)]

\* The stats update assigning currentStreak to bestStreak, without the maximum.
focusCompleted_bestIsCurrent(s) ==
    LET s1 == [s EXCEPT !.pomodoroCount = @ + 1,
                        !.totalFocusTime = @ + modes["focus"].time,
                        !.currentStreak = @ + 1]
    IN  [s1 EXCEPT !.bestStreak = s1.currentStreak]

\* The stats update of complete() for a finished focus period.
focusCompleted(s) ==
    LET s1 == [s EXCEPT !.pomodoroCount = @ + 1,
                        !.totalFocusTime = @ + modes["focus"].time,
                        !.currentStreak = @ + 1]
    IN  [s1 EXCEPT !.bestStreak = Max(@, s1.currentStreak)]

\* The break selection without the every-fourth-session case.
nextBreak_alwaysShort(s) ==
    [mode |-> "short", minutes |-> 5]

\* The mode complete() selects after a focus period, with its minutes.
nextBreak(s) ==
    IF s.pomodoroCount % 4 = 0
    THEN [mode |-> "long", minutes |-> 15]
    ELSE [mode |-> "short", minutes |-> 5]

\* complete() updating the stats whatever the mode that ended.
complete_countsBreaks(w) ==
    LET p == pause(w)
        q == save(PomodoroManager_updateStats(
                 [p EXCEPT !.pm.stats = focusCompleted(@)]))
    IN  IF p.pm.currentMode = "focus"
        THEN LET b == nextBreak(q.pm.stats)
             IN  setMode(q, b.mode, b.minutes)
        ELSE setMode(q, "focus", 25)

\* complete(): for a finished focus period the stats are updated, shown
\* (updateStats) and then saved.
complete(w) ==
    LET p == pause(w)
    IN  IF p.pm.currentMode = "focus"
        THEN LET q == save(PomodoroManager_updateStats(
                          [p EXCEPT !.pm.stats = focusCompleted(@)]))
                 b == nextBreak(q.pm.stats)
             IN  setMode(q, b.mode, b.minutes)
        ELSE setMode(p, "focus", 25)

\* The callback never calling complete(): at 0 it does nothing.
intervalCallback_neverCompletes(w) ==
    IF w.pm.time > 0
    THEN [w EXCEPT !.pm.time = @ - 1]
    ELSE w

\* The setInterval callback of start().
intervalCallback(w) ==
    IF w.pm.time > 0
    THEN [w EXCEPT !.pm.time = @ - 1]
    ELSE complete(w)

\* ------------------------------------------------- values shared by managers

\* The result of a call: the world it leaves, whether it threw, and the
\* value it returned.
Undefined == [kind |-> "undefined"]
Returned(w, v) == [w |-> w, threw |-> FALSE, ret |-> v]
Thrown(w) == [w |-> w, threw |-> TRUE, ret |-> Undefined]

\* What an element shows: its content from index.html, an empty-state
\* block, rendered items, or a text.
Static == [kind |-> "static"]
EmptyState == [kind |-> "empty"]
Html(items) == [kind |-> "html", items |-> items]
Text(t) == [kind |-> "text", text |-> t]

\* new Date(dateStr) for the dates used here, as an instant of the clock:
\* midnight UTC of that day.
NewDate(dateStr) ==
    CASE dateStr = "2025-10-23" -> 0
      [] dateStr = "2025-10-24" -> 1
      [] dateStr = "2025-10-19" -> -4
      [] OTHER -> -1

\* new Date().toISOString().split('T')[0]: the UTC day an instant lies in.
toISODate(t) ==
    IF t < NewDate("2025-10-23") THEN "2025-10-22"
    ELSE IF t < NewDate("2025-10-24") THEN "2025-10-23"
    ELSE "2025-10-24"

\* new Date().toISOString()
toISOString(t) == <<toISODate(t), t>>

\* array.sort((a, b) => new Date(a.date) - new Date(b.date)): stable, in
\* ascending order of the date.
RECURSIVE InsertByDate(_, _)
InsertByDate(x, s) ==
    IF s = <<>> THEN <<x>>
    ELSE IF NewDate(Head(s).date) <= NewDate(x.date)
         THEN <<Head(s)>> \o InsertByDate(x, Tail(s))
         ELSE <<x>> \o s

RECURSIVE SortByDate(_)
SortByDate(s) ==
    IF s = <<>> THEN <<>>
    ELSE InsertByDate(s[Len(s)], SortByDate(SubSeq(s, 1, Len(s) - 1)))

\* array.slice(0, n)
Slice(s, n) == SubSeq(s, 1, IF Len(s) < n THEN Len(s) ELSE n)

\* ------------------------------------------------------------ TaskManager

\* The data-filter values of the filter tabs.
Filters == {"todas", "pendientes", "completadas", "alta"}

\* parseInt(s) || 25 over the texts the time field is given: an empty text
\* parses to NaN and "0" to 0, both falsy.
parseIntOr25(s) ==
    LET numerals == ("0" :> 0) @@ ("45" :> 45)
    IN  IF s \in DOMAIN numerals /\ numerals[s] # 0 THEN numerals[s] ELSE 25

\* TaskManager.load(): Storage.get(StorageKeys.TASKS) || []
TaskManager_load(st) ==
    LET saved == StorageGet(st, TASKS)
    IN  IF saved.kind = "value" THEN saved.val ELSE <<>>

\* TaskManager.save()
TaskManager_save(w) ==
    Logged([w EXCEPT !.store = StorageSet(w.store, w.throws, TASKS, w.tm.tasks)],
           "save", TASKS, w.tm.tasks)

\* getFilteredTasks() answering every task under 'completadas'.
getFilteredTasks_completedIsAll(t) ==
    CASE t.currentFilter = "pendientes" ->
            SelectSeq(t.tasks, LAMBDA x : ~x.completed)
      [] t.currentFilter = "completadas" -> t.tasks
      [] t.currentFilter = "alta" ->
            SelectSeq(t.tasks, LAMBDA x : x.priority = "alta")
      [] OTHER -> t.tasks

\* getFilteredTasks()
getFilteredTasks(t) ==
    CASE t.currentFilter = "pendientes" ->
            SelectSeq(t.tasks, LAMBDA x : ~x.completed)
      [] t.currentFilter = "completadas" ->
            SelectSeq(t.tasks, LAMBDA x : x.completed)
      [] t.currentFilter = "alta" ->
            SelectSeq(t.tasks, LAMBDA x : x.priority = "alta")
      [] OTHER -> t.tasks

\* createTaskHTML(task): what one rendered item shows.
createTaskHTML(task) ==
    [id |-> task.id, title |-> task.title, desc |-> task.desc,
     priority |-> task.priority, date |-> task.date, time |-> task.time,
     completed |-> task.completed]

\* The options of the selector: pending.map(t => `<option value=...>`).
optionsHTML(pending) ==
    [i \in 1..Len(pending) |->
        [value |-> pending[i].id, title |-> pending[i].title]]

\* populatePomodoroTasks() sorting this.tasks itself, without the filter copy.
populatePomodoroTasks_sortsInPlace(w) ==
    LET sorted == SortByDate(w.tm.tasks)
        pending == SelectSeq(sorted, LAMBDA t : ~t.completed)
    IN  [w EXCEPT !.tm.tasks = sorted,
                  !.dom.pomodoroTask =
                      Html(optionsHTML(pending))]

\* populatePomodoroTasks(): the pending tasks, a copy sorted by date.
populatePomodoroTasks(w) ==
    LET pending == SortByDate(SelectSeq(w.tm.tasks, LAMBDA t : ~t.completed))
    IN  [w EXCEPT !.dom.pomodoroTask =
                      Html(optionsHTML(pending))]

\* updateStats(): the header's completed/total text.
updateStats(w) ==
    LET completedTasks == Len(SelectSeq(w.tm.tasks, LAMBDA t : t.completed))
    IN  [w EXCEPT !.dom.headerTasks = Text(<<completedTasks, Len(w.tm.tasks)>>)]

\* renderTasks(): an empty filtered list shows the empty state and returns
\* before the stats and the pomodoro selector are refreshed.
renderTasks(w) ==
    LET filtered == getFilteredTasks(w.tm)
        v == Logged(w, "render", TASKS, w.tm.tasks)
    IN  IF Len(filtered) = 0
        THEN [v EXCEPT !.dom.taskList = EmptyState]
        ELSE populatePomodoroTasks(updateStats(
                 [v EXCEPT !.dom.taskList =
                     Html([i \in 1..Len(filtered) |->
                              createTaskHTML(filtered[i])])]))

\* The task addTask builds from the form data at instant t.
NewTask(taskData, t) ==
    [id |-> t,
     title |-> taskData.title,
     desc |-> taskData.desc,
     date |-> taskData.date,
     time |-> parseIntOr25(taskData.time),
     priority |-> IF taskData.priority = "" THEN "media" ELSE taskData.priority,
     completed |-> FALSE,
     createdAt |-> toISOString(t)]

\* addTask() without the validation of title and date.
addTask_noValidation(w, taskData) ==
    LET task == NewTask(taskData, w.now)
        pushed == [w EXCEPT !.tm.tasks = Append(@, task)]
    IN  Returned(renderTasks(TaskManager_save(pushed)), Value(task))

\* addTask(taskData): an empty (or missing) title or date throws before
\* anything is touched.
addTask(w, taskData) ==
    IF taskData.title = "" \/ taskData.date = ""
    THEN Thrown(w)
    ELSE LET task == NewTask(taskData, w.now)
             pushed == [w EXCEPT !.tm.tasks = Append(@, task)]
         IN  Returned(renderTasks(TaskManager_save(pushed)), Value(task))

\* The indices of the tasks with the given id.
Matching(tasks, id) == {i \in 1..Len(tasks) : tasks[i].id = id}

\* toggleTask() flipping every task, whatever its id.
toggleTask_flipsAll(w, id) ==
    LET flipped == [w EXCEPT !.tm.tasks =
                        [i \in 1..Len(@) |-> [@[i] EXCEPT !.completed = ~@]]]
    IN  Returned(renderTasks(TaskManager_save(flipped)), Undefined)

\* toggleTask(id): tasks.find gives the first task with that id, if any.
toggleTask(w, id) ==
    LET found == Matching(w.tm.tasks, id)
    IN  IF found = {}
        THEN Returned(w, Undefined)
        ELSE LET i == CHOOSE k \in found : \A j \in found : k <= j
                 flipped == [w EXCEPT !.tm.tasks[i].completed = ~@]
             IN  Returned(renderTasks(TaskManager_save(flipped)), Undefined)

\* deleteTask() that filters the collection and does not save it.
deleteTask_noSave(w, id) ==
    LET kept == [w EXCEPT !.tm.tasks = SelectSeq(@, LAMBDA t : t.id # id)]
    IN  Returned(renderTasks(kept), Undefined)

\* deleteTask(id)
deleteTask(w, id) ==
    LET kept == [w EXCEPT !.tm.tasks = SelectSeq(@, LAMBDA t : t.id # id)]
    IN  Returned(renderTasks(TaskManager_save(kept)), Undefined)

\* filterTasks(filter)
filterTasks(w, filter) ==
    Returned(renderTasks([w EXCEPT !.tm.currentFilter = filter]), Undefined)

\* isThisWeek(dateStr) at instant t: startOfWeek is today moved back by
\* getDay() days, at 00:00.  Every instant of the clock lies in the week
\* that began on Sunday 2025-10-19.  The date is only compared with the
\* start of the week.
isThisWeek(dateStr, t) ==
    LET startOfWeek == NewDate("2025-10-19")
    IN  NewDate(dateStr) >= startOfWeek

\* The weekly progress updateStats() and updateDashboard() show: the count
\* of completed tasks of this week and Math.min((weekTasks / 15) * 100, 100),
\* the percent given in thirds (weekTasks / 15 * 100 = weekTasks * 20 / 3).
weekProgress(w) ==
    LET weekTasks ==
            Len(SelectSeq(w.tm.tasks,
                    LAMBDA t : t.completed /\ isThisWeek(t.date, w.now)))
    IN  [weekTasks |-> weekTasks,
         weekPercentThirds |-> IF weekTasks * 20 <= 100 * 3
                               THEN weekTasks * 20 ELSE 100 * 3]

\* ------------------------------------------------- CalendarManager and App

\* A render that writes only to elements that are not state: the world it
\* leaves and what it displays.
Shown(w, html) == [w |-> w, html |-> html]

\* renderUpcomingTasks(): the first five pending tasks dated now or later,
\* a copy sorted by date.
renderUpcomingTasks(w) ==
    LET futureTasks ==
            Slice(SortByDate(SelectSeq(w.tm.tasks,
                      LAMBDA t : ~t.completed /\ NewDate(t.date) >= w.now)), 5)
    IN  IF Len(futureTasks) = 0
        THEN Shown(w, EmptyState)
        ELSE Shown(w, Html([i \in 1..Len(futureTasks) |->
                               [title |-> futureTasks[i].title,
                                date |-> futureTasks[i].date]]))

\* renderCalendar(): the week grid and chart only read the tasks; the
\* upcoming list is rendered last.
renderCalendar(w) == renderUpcomingTasks(w)

\* updateDashboard(): the count of today's completed tasks.
updateDashboard(w) ==
    LET today == toISODate(w.now)
        todayTasks == SelectSeq(w.tm.tasks, LAMBDA t : t.date = today)
        completedToday == Len(SelectSeq(todayTasks, LAMBDA t : t.completed))
    IN  Shown(w, Text(completedToday))

\* The sections whose display shows tasks.
TaskSections == {"home", "tareas", "calendario", "pomodoro"}

\* showSection(sectionId)
showSection(w, sectionId) ==
    CASE sectionId = "home" -> updateDashboard(w).w
      [] sectionId = "tareas" -> renderTasks(w)
      [] sectionId = "calendario" -> renderCalendar(w).w
      [] sectionId = "pomodoro" -> populatePomodoroTasks(w)
      [] OTHER -> w

\* ------------------------------------------------------- FlashcardManager

\* The cursor value NaN, which x % 0 gives on an empty collection. It is no
\* index, and arithmetic on it gives NaN again.
NaN == -1

\* FlashcardManager.load(): Storage.get(StorageKeys.FLASHCARDS) || []
FlashcardManager_load(st) ==
    LET saved == StorageGet(st, FLASHCARDS)
    IN  IF saved.kind = "value" THEN saved.val ELSE <<>>

\* FlashcardManager.save()
FlashcardManager_save(w) ==
    Logged([w EXCEPT !.store =
                StorageSet(w.store, w.throws, FLASHCARDS, w.fm.flashcards)],
           "save", FLASHCARDS, w.fm.flashcards)

\* displayCurrentCard(): with cards present it reads the fields of
\* flashcards[currentCardIndex], a TypeError when that is undefined.
displayCurrentCard(w) ==
    LET v == Logged(w, "render", FLASHCARDS, w.fm.flashcards)
    IN  IF Len(w.fm.flashcards) = 0
        THEN Returned(v, Undefined)
        ELSE IF w.fm.currentCardIndex + 1 \in 1..Len(w.fm.flashcards)
             THEN Returned(v, Undefined)
             ELSE Thrown(w)

\* renderCards(): displayCurrentCard(), then the subjects list.
renderCards(w) == displayCurrentCard(w)

\* addFlashcard() without the validation of subject, question and answer.
addFlashcard_noValidation(w, cardData) ==
    LET card == [id |-> w.now,
                 subject |-> cardData.subject,
                 question |-> cardData.question,
                 answer |-> cardData.answer,
                 reviews |-> 0,
                 lastReviewed |-> Null]
        pushed == [w EXCEPT !.fm.flashcards = Append(@, card)]
        shown == renderCards(FlashcardManager_save(pushed))
    IN  IF shown.threw THEN shown ELSE Returned(shown.w, Value(card))

\* addFlashcard(cardData): an empty (or missing) subject, question or
\* answer throws before anything is touched.
addFlashcard(w, cardData) ==
    IF cardData.subject = "" \/ cardData.question = "" \/ cardData.answer = ""
    THEN Thrown(w)
    ELSE LET card == [id |-> w.now,
                      subject |-> cardData.subject,
                      question |-> cardData.question,
                      answer |-> cardData.answer,
                      reviews |-> 0,
                      lastReviewed |-> Null]
             pushed == [w EXCEPT !.fm.flashcards = Append(@, card)]
             shown == renderCards(FlashcardManager_save(pushed))
         IN  IF shown.threw THEN shown ELSE Returned(shown.w, Value(card))

\* nextCard() stopping past the last card instead of wrapping.
nextCard_noWrap(w) ==
    LET n == Len(w.fm.flashcards)
        i == w.fm.currentCardIndex
    IN  displayCurrentCard(
            [w EXCEPT !.fm.currentCardIndex =
                IF n = 0 \/ i = NaN THEN NaN ELSE i + 1])

\* nextCard(): (currentCardIndex + 1) % length, NaN when length is 0.
nextCard(w) ==
    LET n == Len(w.fm.flashcards)
        i == w.fm.currentCardIndex
    IN  displayCurrentCard(
            [w EXCEPT !.fm.currentCardIndex =
                IF n = 0 \/ i = NaN THEN NaN ELSE (i + 1) % n])

\* previousCard()
previousCard(w) ==
    LET n == Len(w.fm.flashcards)
        i == w.fm.currentCardIndex
    IN  displayCurrentCard(
            [w EXCEPT !.fm.currentCardIndex =
                IF n = 0 \/ i = NaN THEN NaN ELSE (i - 1 + n) % n])

\* markReviewed(): card.reviews++ is a TypeError when the cursor is on no card.
markReviewed(w) ==
    LET n == Len(w.fm.flashcards)
        i == w.fm.currentCardIndex + 1
    IN  IF n > 0
        THEN IF i \in 1..n
             THEN nextCard(FlashcardManager_save(
                      [w EXCEPT !.fm.flashcards[i].reviews = @ + 1,
                                !.fm.flashcards[i].lastReviewed =
                                    Value(toISOString(w.now))]))
             ELSE Thrown(w)
        ELSE Returned(w, Undefined)

\* studySubject(subject): the cursor goes to the first card of the subject;
\* the click on the nav item shows the section (renderCards).
studySubject(w, subject) ==
    LET subjectCards == {i \in 1..Len(w.fm.flashcards) :
                            w.fm.flashcards[i].subject = subject}
    IN  IF subjectCards # {}
        THEN LET first == CHOOSE k \in subjectCards :
                              \A j \in subjectCards : k <= j
             IN  displayCurrentCard(
                     renderCards([w EXCEPT !.fm.currentCardIndex = first - 1]).w)
        ELSE Returned(w, Undefined)

\* ------------------------------------------------------------ MoodManager

\* MoodManager.load(): Storage.get(StorageKeys.MOODS) || []
MoodManager_load(st) ==
    LET saved == StorageGet(st, MOODS)
    IN  IF saved.kind = "value" THEN saved.val ELSE <<>>

\* MoodManager.save()
MoodManager_save(w) ==
    Logged([w EXCEPT !.store =
                StorageSet(w.store, w.throws, MOODS, w.mm.moodHistory)],
           "save", MOODS, w.mm.moodHistory)

\* renderMoodHistory(): the last seven entries, or the empty message.
renderMoodHistory(w) ==
    Logged(w, "render", MOODS, w.mm.moodHistory)

\* new Date().toLocaleDateString('es'): day/month/year of the instant.
toLocaleDateString(t) ==
    CASE toISODate(t) = "2025-10-22" -> "22/10/2025"
      [] toISODate(t) = "2025-10-23" -> "23/10/2025"
      [] OTHER -> "24/10/2025"

\* updateMoodRecommendations(level): recommendations[level].map is a
\* TypeError for a level the table has no entry for.
updateMoodRecommendations(w, level) ==
    IF level \in 1..5 THEN Returned(w, Undefined) ELSE Thrown(w)

\* selectMood(level): the entry is pushed, saved and shown in the history
\* before the recommendations are looked up.
selectMood(w, level) ==
    LET entry == [date |-> toLocaleDateString(w.now),
                  mood |-> level,
                  timestamp |-> toISOString(w.now)]
        pushed == [w EXCEPT !.mm.moodHistory = Append(@, entry)]
    IN  updateMoodRecommendations(
            renderMoodHistory(MoodManager_save(pushed)), level)

\* array.slice(-n) for n >= 1: the last n elements, all of them when there
\* are fewer.
SliceLast(s, n) == SubSeq(s, Max(1, Len(s) - n + 1), Len(s))

\* recent.reduce((acc, entry) => acc + entry.mood, 0)
RECURSIVE SumOfMoods(_)
SumOfMoods(entries) ==
    IF entries = <<>> THEN 0
    ELSE Head(entries).mood + SumOfMoods(Tail(entries))

\* Math.round(num / den) for den > 0: the nearest integer, a half going up.
MathRound(num, den) == (2 * num + den) \div (2 * den)

\* getAverageMood() cutting the decimals after the first instead of rounding.
getAverageMood_truncates(moodHistory, days) ==
    LET recent == SliceLast(moodHistory, days)
    IN  IF Len(recent) = 0 THEN 0
        ELSE (SumOfMoods(recent) * 10) \div Len(recent)

\* getAverageMood(days), in tenths: Math.round((sum / length) * 10) / 10 is
\* a number with one decimal, given here as the integer Math.round yields
\* (33 for 3.3).  The quotients involved are exact in floating point
\* wherever they lie on a half.
getAverageMood(moodHistory, days) ==
    LET recent == SliceLast(moodHistory, days)
    IN  IF Len(recent) = 0 THEN 0
        ELSE MathRound(SumOfMoods(recent) * 10, Len(recent))

\* getMoodTrend() taking the average of the last 2 entries as the recent one.
getMoodTrend_lastTwo(moodHistory) ==
    IF Len(moodHistory) < 2 THEN "neutral"
    ELSE LET average == getAverageMood(moodHistory, 2)
             previousAverage == getAverageMood(moodHistory, 6)
         IN  IF average > previousAverage THEN "improving"
             ELSE IF average < previousAverage THEN "declining"
             ELSE "stable"

\* getMoodTrend(): the rounded averages of the last 3 and of the last 6
\* entries are compared.
getMoodTrend(moodHistory) ==
    IF Len(moodHistory) < 2 THEN "neutral"
    ELSE LET average == getAverageMood(moodHistory, 3)
             previousAverage == getAverageMood(moodHistory, 6)
         IN  IF average > previousAverage THEN "improving"
             ELSE IF average < previousAverage THEN "declining"
             ELSE "stable"

\* ------------------------------------------------------------------ state

\* The program's state as one value, for the operations above.
World ==
    [pm |-> pm, timers |-> timers, store |-> store, throws |-> setItemThrows,
     tm |-> tm, fm |-> fm, mm |-> mm, dom |-> dom, now |-> now,
     log |-> <<>>]

Apply(r) ==
    /\ pm' = r.pm
    /\ timers' = r.timers
    /\ store' = r.store
    /\ tm' = r.tm
    /\ fm' = r.fm
    /\ mm' = r.mm
    /\ dom' = r.dom
    /\ now' = r.now
    /\ UNCHANGED <<setItemThrows, scope>>

\* What localStorage may hold under the stats key when the page loads.
SavedChoices ==
    { Missing,
      Corrupt,
      JSONstringify([currentStreak |-> 2]),
      JSONstringify([pomodoroCount |-> 3, totalFocusTime |-> 75,
                     bestStreak |-> 1, currentStreak |-> 3]),
      JSONstringify([pomodoroCount |-> 2, totalFocusTime |-> 50,
                     bestStreak |-> 3, currentStreak |-> 1, version |-> 1]) }

\* A task saved by an earlier session.
SavedTask ==
    [id |-> -2, title |-> "Read", desc |-> "", date |-> "2025-10-23",
     time |-> 25, priority |-> "media", completed |-> TRUE,
     createdAt |-> toISOString(-2)]

\* What localStorage may hold under the tasks key when the page loads.
SavedTaskChoices ==
    { Missing, Corrupt, JSONstringify(<<>>), JSONstringify(<<SavedTask>>) }

\* What localStorage may hold under the flashcards key when the page loads.
SavedCardChoices ==
    { Missing,
      Corrupt,
      JSONstringify(<<[id |-> -2, subject |-> "Math", question |-> "2+2",
                       answer |-> "4", reviews |-> 1,
                       lastReviewed |-> Value(toISOString(-2))]>>) }

\* What localStorage may hold under the moods key when the page loads.
SavedMoodChoices ==
    { Missing,
      Corrupt,
      JSONstringify(<<[date |-> toLocaleDateString(-2), mood |-> 4,
                       timestamp |-> toISOString(-2)]>>) }

\* The levels of the mood buttons: the keys of the texts and of the
\* recommendations tables.
ButtonLevels == 1..5

\* The window lengths getAverageMood is called with (7 is the default).
DaysInputs == 1..7

\* The minutes arguments setMode is called with.
MinutesInputs == {-1, 0, 5, 15, 25}

\* The form data addTask is called with.
TaskInputs ==
    { [title |-> "", desc |-> "", date |-> "2025-10-23", time |-> "",
       priority |-> ""],
      [title |-> "Essay", desc |-> "", date |-> "", time |-> "",
       priority |-> ""],
      [title |-> "Essay", desc |-> "", date |-> "2025-10-24", time |-> "",
       priority |-> ""],
      [title |-> "Quiz", desc |-> "ch. 3", date |-> "2025-10-23",
       time |-> "45", priority |-> "alta"] }

\* The ids toggleTask and deleteTask are called with: those of the rendered
\* buttons and, from the console, ids no task has.
TaskIds == {SavedTask.id} \cup (0..MaxClock)

\* The form data addFlashcard is called with.
CardInputs ==
    { [subject |-> "", question |-> "2+2", answer |-> "4"],
      [subject |-> "Math", question |-> "", answer |-> "4"],
      [subject |-> "Math", question |-> "3*3", answer |-> ""],
      [subject |-> "Math", question |-> "3*3", answer |-> "9"],
      [subject |-> "Bio", question |-> "Cell?", answer |-> "Unit of life"] }

\* The subjects studySubject is called with.
SubjectInputs == {"Math", "Bio", "Art"}

\* The levels selectMood is called with: the five buttons and, from the
\* console, values outside the scale.
MoodInputs == 0..6

\* The page after the modules are loaded and app.init() has run on the
\* given localStorage: every manager constructed, then initializeUI().
PageLoad(st) ==
    LET constructed ==
            [pm |-> [time |-> 25 * SecondsPerMinute,
                     interval |-> 0,
                     isRunning |-> FALSE,
                     currentMode |-> "focus",
                     stats |-> load(st)],
             timers |-> {},
             store |-> st,
             throws |-> FALSE,
             tm |-> [tasks |-> TaskManager_load(st), currentFilter |-> "todas"],
             fm |-> [flashcards |-> FlashcardManager_load(st),
                     currentCardIndex |-> 0],
             mm |-> [moodHistory |-> MoodManager_load(st)],
             dom |-> [taskList |-> Static, headerTasks |-> Static,
                      pomodoroTask |-> Static],
             now |-> 0,
             log |-> <<>>]
    IN  renderCalendar(renderTasks(updateDashboard(
            populatePomodoroTasks(constructed)).w)).w

\* The state is the loaded page, used through one of its sections.
Loaded(st, section) ==
    LET w == PageLoad(st)
    IN  /\ pm = w.pm
        /\ timers = w.timers
        /\ store = w.store
        /\ setItemThrows = w.throws
        /\ tm = w.tm
        /\ fm = w.fm
        /\ mm = w.mm
        /\ dom = w.dom
        /\ now = w.now
        /\ scope = section

\* localStorage with one entry, under the given key.
OnlyKey(key, saved) ==
    [k \in StorageKeys |-> IF k = key THEN saved ELSE Missing]

\* The page loaded, with the pomodoro section in use.
Init ==
    /\ \E saved \in SavedChoices :
           Loaded(OnlyKey(POMODORO_STATS, saved), "pomodoro")
    /\ modeLog = IF load(store).pomodoroCount = 0 THEN <<"focus">> ELSE <<>>

\* ---------------------------------------------------------------- actions

\* A call of setMode(mode, minutes).
SetMode ==
    \E mode \in Modes, minutes \in MinutesInputs :
        /\ Apply(setMode(World, mode, minutes))
        /\ modeLog' = <<>>

\* A click on a mode button: setMode(mode, this.modes[mode].time).
ModeButton ==
    \E mode \in Modes :
        /\ Apply(setMode(World, mode, modes[mode].time))
        /\ modeLog' = <<>>

Start ==
    /\ Apply(start(World))
    /\ UNCHANGED modeLog

Pause ==
    /\ Apply(pause(World))
    /\ UNCHANGED modeLog

Reset ==
    /\ Apply(reset(World))
    /\ UNCHANGED modeLog

\* The tick finds the countdown expired and runs complete().
Expired == ~(pm.time > 0)

\* One firing of a live interval's callback.
Tick ==
    /\ timers # {}
    /\ ~(Expired /\ pm.currentMode = "focus"
            /\ pm.stats.pomodoroCount >= MaxPomodoros)
    /\ Apply(intervalCallback(World))
    /\ modeLog' = IF Expired /\ modeLog # <<>> /\ Len(modeLog) < MaxLog
                  THEN Append(modeLog, pm'.currentMode)
                  ELSE modeLog

Next ==
    \/ ModeButton
    \/ SetMode
    \/ Start
    \/ Pause
    \/ Reset
    \/ Tick

Spec == Init /\ [][Next]_vars

\* The timer left alone while it runs: setMode, pause and reset are called
\* only when no countdown is running.
NextCountdown ==
    \/ ~pm.isRunning /\ ModeButton
    \/ ~pm.isRunning /\ SetMode
    \/ ~pm.isRunning /\ Pause
    \/ ~pm.isRunning /\ Reset
    \/ Start
    \/ Tick

\* setInterval keeps delivering the callback of a live interval.
SpecCountdown == Init /\ [][NextCountdown]_vars /\ WF_vars(Tick)

\* ----------------------------------------------------- the other sections

\* The clock moves on by one instant.
ClockAdvance ==
    /\ now < MaxClock
    /\ now' = now + 1
    /\ UNCHANGED <<pm, timers, store, setItemThrows, modeLog, tm, fm, mm, dom,
                   scope>>

AddTask ==
    \E taskData \in TaskInputs :
        /\ Len(tm.tasks) < MaxTasks
        /\ Apply(addTask(World, taskData).w)
        /\ UNCHANGED modeLog

ToggleTask ==
    \E id \in TaskIds :
        /\ Apply(toggleTask(World, id).w)
        /\ UNCHANGED modeLog

DeleteTask ==
    \E id \in TaskIds :
        /\ Apply(deleteTask(World, id).w)
        /\ UNCHANGED modeLog

FilterTasks ==
    \E filter \in Filters :
        /\ Apply(filterTasks(World, filter).w)
        /\ UNCHANGED modeLog

\* A click on a nav item: showSection(sectionId).
ShowSection ==
    \E sectionId \in TaskSections :
        /\ Apply(showSection(World, sectionId))
        /\ UNCHANGED modeLog

\* The page loaded, with the tasks section in use.
InitTasks ==
    /\ \E saved \in SavedTaskChoices : Loaded(OnlyKey(TASKS, saved), "tareas")
    /\ modeLog = <<>>

NextTasks ==
    \/ AddTask
    \/ ToggleTask
    \/ DeleteTask
    \/ FilterTasks
    \/ ShowSection
    \/ ClockAdvance

SpecTasks == InitTasks /\ [][NextTasks]_vars

\* The page loaded with localStorage at its quota: every setItem of the
\* session throws.  The store holds what earlier sessions wrote.
InitQuota ==
    /\ \E saved \in SavedTaskChoices :
           LET w == PageLoad([OnlyKey(TASKS, saved) EXCEPT
                                 ![FLASHCARDS] = JSONstringify(<<>>)])
           IN  /\ pm = w.pm
               /\ timers = w.timers
               /\ store = w.store
               /\ setItemThrows = TRUE
               /\ tm = w.tm
               /\ fm = w.fm
               /\ mm = w.mm
               /\ dom = w.dom
               /\ now = w.now
               /\ scope = "tareas"
    /\ modeLog = <<>>

\* The tasks section used while every write to localStorage fails.
SpecQuota == InitQuota /\ [][NextTasks]_vars

AddFlashcard ==
    \E cardData \in CardInputs :
        /\ Len(fm.flashcards) < MaxCards
        /\ Apply(addFlashcard(World, cardData).w)
        /\ UNCHANGED modeLog

NextCard ==
    /\ Apply(nextCard(World).w)
    /\ UNCHANGED modeLog

PreviousCard ==
    /\ Apply(previousCard(World).w)
    /\ UNCHANGED modeLog

MarkReviewed ==
    /\ \A i \in 1..Len(fm.flashcards) : fm.flashcards[i].reviews < MaxReviews
    /\ Apply(markReviewed(World).w)
    /\ UNCHANGED modeLog

StudySubject ==
    \E subject \in SubjectInputs :
        /\ Apply(studySubject(World, subject).w)
        /\ UNCHANGED modeLog

\* The page loaded, with the flashcards section in use.
InitCards ==
    /\ \E saved \in SavedCardChoices :
           Loaded(OnlyKey(FLASHCARDS, saved), "flashcards")
    /\ modeLog = <<>>

NextCards ==
    \/ AddFlashcard
    \/ NextCard
    \/ PreviousCard
    \/ MarkReviewed
    \/ StudySubject
    \/ ClockAdvance

SpecCards == InitCards /\ [][NextCards]_vars

SelectMood ==
    \E level \in MoodInputs :
        /\ Len(mm.moodHistory) < MaxMoods
        /\ Apply(selectMood(World, level).w)
        /\ UNCHANGED modeLog

\* A click on one of the five mood buttons: bindEvents hands the button's
\* data-mood to selectMood.
MoodButton ==
    \E level \in ButtonLevels :
        /\ Len(mm.moodHistory) < MaxHistory
        /\ Apply(selectMood(World, level).w)
        /\ UNCHANGED modeLog

\* The page loaded, with the mood section in use.
InitMood ==
    /\ \E saved \in SavedMoodChoices : Loaded(OnlyKey(MOODS, saved), "mood")
    /\ modeLog = <<>>

\* The clock stands still here: the date and the timestamp of an entry
\* play no part in what is read from the history.
NextMood ==
    \/ SelectMood
    \/ MoodButton

SpecMood == InitMood /\ [][NextMood]_vars

\* The page used through one section: the managers share nothing but the
\* store, where each one reads and writes its own key.
InitApp ==
    \/ Init
    \/ InitTasks
    \/ InitCards
    \/ InitMood

NextApp ==
    \/ scope = "pomodoro" /\ ModeButton
    \/ scope = "pomodoro" /\ SetMode
    \/ scope = "pomodoro" /\ Start
    \/ scope = "pomodoro" /\ Pause
    \/ scope = "pomodoro" /\ Reset
    \/ scope = "pomodoro" /\ Tick
    \/ scope = "tareas" /\ AddTask
    \/ scope = "tareas" /\ ToggleTask
    \/ scope = "tareas" /\ DeleteTask
    \/ scope = "tareas" /\ FilterTasks
    \/ scope = "tareas" /\ ShowSection
    \/ scope = "flashcards" /\ AddFlashcard
    \/ scope = "flashcards" /\ NextCard
    \/ scope = "flashcards" /\ PreviousCard
    \/ scope = "flashcards" /\ MarkReviewed
    \/ scope = "flashcards" /\ StudySubject
    \/ scope = "mood" /\ SelectMood
    \/ scope # "pomodoro" /\ ClockAdvance

SpecApp == InitApp /\ [][NextApp]_vars

\* ----------------------------------------------------------------- claims

\* A step in which the interval callback finds the countdown expired.
ExpiryStep == Tick /\ Expired

WorkExpiry == ExpiryStep /\ pm.currentMode = "focus"

BreakExpiry == ExpiryStep /\ pm.currentMode # "focus"

\* A call of setMode, from the API or from a mode button.
SetModeStep == SetMode \/ ModeButton

\* C1: every expiry of the timer in focus mode adds exactly 1 to
\* pomodoroCount and exactly 1 to currentStreak, and leaves no live interval
\* and a mode other than focus, so that no later tick counts the same work
\* period again.
C1_WorkExpiryCountsOnce ==
    [][WorkExpiry =>
        /\ pm'.stats.pomodoroCount = pm.stats.pomodoroCount + 1
        /\ pm'.stats.currentStreak = pm.stats.currentStreak + 1
        /\ timers' = {}
        /\ ~pm'.isRunning
        /\ pm'.currentMode # "focus"]_vars

\* Zeroed stats, one full focus period, expired and counted.
C1_Witness ==
    /\ modeLog = <<"focus", "short">>
    /\ pm.stats.pomodoroCount = 1
    /\ pm.stats.currentStreak = 1
    /\ timers = {}

\* The mode at position i of a run of consecutive expiries that starts in
\* focus mode with no session counted.
ExpectedMode(i) ==
    IF i % 2 = 1 THEN "focus"
    ELSE IF (i \div 2) % 4 = 0 THEN "long" ELSE "short"

\* C2: after a focus expiry the timer is not running, the mode is long
\* exactly when the updated pomodoroCount is divisible by 4 and short
\* otherwise, and time is that break's duration (15*60 or 5*60); a run of
\* consecutive expiries from a zero count goes focus, short, focus, short,
\* focus, short, focus, long.
C2_BreakSelection ==
    /\ [][WorkExpiry =>
            /\ ~pm'.isRunning
            /\ pm'.currentMode \in {"short", "long"}
            /\ (pm'.currentMode = "long") <=> (pm'.stats.pomodoroCount % 4 = 0)
            /\ pm'.time = IF pm'.currentMode = "long" THEN 15 * 60 ELSE 5 * 60]_vars
    /\ [](\A i \in DOMAIN modeLog : modeLog[i] = ExpectedMode(i))

\* The fourth consecutive focus period has just expired.
C2_Witness ==
    /\ modeLog = <<"focus", "short", "focus", "short",
                   "focus", "short", "focus", "long">>
    /\ pm.currentMode = "long"
    /\ pm.time = 15 * 60
    /\ pm.stats.pomodoroCount = 4
    /\ ~pm.isRunning

\* C3: an expiry in short or long mode sets the mode to focus and time to
\* 25*60, leaves the timer not running, and changes neither the stats nor
\* the stored stats record.
C3_BreakExpiry ==
    [][BreakExpiry =>
        /\ pm'.currentMode = "focus"
        /\ pm'.time = 25 * 60
        /\ ~pm'.isRunning
        /\ timers' = {}
        /\ pm'.stats = pm.stats
        /\ store' = store]_vars

\* A short break that followed a counted focus period has expired.
C3_Witness ==
    /\ modeLog = <<"focus", "short", "focus">>
    /\ pm.currentMode = "focus"
    /\ pm.time = 25 * 60
    /\ pm.stats.pomodoroCount = 1
    /\ ~pm.isRunning

C5_BestAtLeastCurrent ==
    [][(pm'.stats # pm.stats \/ pm.stats.bestStreak >= pm.stats.currentStreak)
        => pm'.stats.bestStreak >= pm'.stats.currentStreak]_vars

\* The loaded record had currentStreak 2 and no bestStreak; one focus period
\* has been counted since.
C5_Witness ==
    /\ pm.stats.pomodoroCount = 1
    /\ pm.stats.currentStreak = 3
    /\ pm.stats.bestStreak = 3

\* C6: bestStreak never decreases, in any step of any operation.
C6_BestStreakMonotonic ==
    [][pm'.stats.bestStreak >= pm.stats.bestStreak]_vars

\* The loaded record had bestStreak 3 above currentStreak 1; a counted focus
\* period raised currentStreak and kept bestStreak.
C6_Witness ==
    /\ pm.stats.pomodoroCount = 3
    /\ pm.stats.currentStreak = 2
    /\ pm.stats.bestStreak = 3

\* C7: setMode(mode, minutes) called while the countdown runs cancels it:
\* afterwards the timer is not running and no interval is live, time is
\* minutes*60 and the stats are unchanged.
C7_SetModeCancels ==
    [][(SetModeStep /\ pm.isRunning) =>
        /\ ~pm'.isRunning
        /\ timers' = {}
        /\ pm'.stats = pm.stats
        /\ \E minutes \in MinutesInputs : pm'.time = minutes * 60]_vars

\* C8: start() while running changes nothing; at most one interval is live,
\* the timer is running exactly when one is, and a tick takes at most 1 off
\* time.
C8_SingleCountdown ==
    /\ [](/\ Cardinality(timers) <= 1
          /\ pm.isRunning <=> (timers # {})
          /\ timers \subseteq {pm.interval}
          /\ pm.isRunning => start(World) = World)
    /\ [][Tick => pm'.time >= pm.time - 1]_vars

\* The countdown runs on its single interval, two ticks in.
C8_Witness ==
    /\ pm.isRunning
    /\ timers = {1}
    /\ pm.interval = 1
    /\ pm.currentMode = "focus"
    /\ pm.time = 25 * 60 - 2

\* C9: after pause() or reset() no interval is live, and while the timer is
\* not running no tick fires; pause() twice is pause() once and reset()
\* twice is reset() once, also when the timer was never started.
C9_PauseResetCancel ==
    /\ [][(Pause \/ Reset) => (timers' = {} /\ ~pm'.isRunning)]_vars
    /\ [][~pm.isRunning => ~Tick]_vars
    /\ [](/\ pause(pause(World)) = pause(World)
          /\ reset(reset(World)) = reset(World))

\* Paused one tick into a focus period: the handle is stale, nothing is live.
C9_Witness ==
    /\ ~pm.isRunning
    /\ timers = {}
    /\ pm.interval = 1
    /\ pm.currentMode = "focus"
    /\ pm.time = 25 * 60 - 1

\* C10: pause() leaves time, the mode, the stats and the stored record as
\* they are, and a start() after it runs the countdown from that same time.
C10_PauseKeepsTime ==
    /\ [][Pause =>
            /\ pm'.time = pm.time
            /\ pm'.currentMode = pm.currentMode
            /\ pm'.stats = pm.stats
            /\ store' = store]_vars
    /\ [](LET r == start(pause(World))
          IN  /\ r.pm.time = pm.time
              /\ r.pm.isRunning
              /\ r.timers = {r.pm.interval})

\* Paused three ticks into a short break.
C10_Witness ==
    /\ ~pm.isRunning
    /\ timers = {}
    /\ pm.interval = 1
    /\ pm.currentMode = "short"
    /\ pm.time = 5 * 60 - 3

\* C11: after setMode(mode, minutes) selected the mode, reset() leaves the
\* timer not running, in the same mode, with time = minutes * 60 (the
\* minutes given to that setMode call).
C11_ResetToConfiguredMinutes ==
    \A mode \in Modes, minutes \in MinutesInputs :
        minutes > 0 =>
            LET r == reset(setMode(World, mode, minutes))
            IN  /\ ~r.pm.isRunning
                /\ r.pm.currentMode = mode
                /\ r.pm.time = minutes * SecondsPerMinute

\* C12: time >= 0 in every reachable state.
C12_TimeNonNegative ==
    pm.time >= 0

\* C13: setMode(mode, minutes) with zero or negative minutes sets time to
\* the default duration of that mode.
C13_SetModeCoercesMinutes ==
    \A mode \in Modes, minutes \in MinutesInputs :
        minutes <= 0 =>
            setMode(World, mode, minutes).pm.time = modes[mode].time * 60

\* A task input addTask accepts.
ValidTaskData(taskData) == taskData.title # "" /\ taskData.date # ""

\* C14: addTask with an empty title or date throws and leaves the in-memory
\* tasks and the store as they were; with both present it does not throw,
\* the collection is the old one with one task appended, that task has
\* completed = FALSE, and it is the value returned.
C14_AddTask ==
    /\ [](\A taskData \in TaskInputs :
            LET o == addTask(World, taskData)
                n == Len(tm.tasks)
            IN  IF ValidTaskData(taskData)
                THEN /\ ~o.threw
                     /\ Len(o.w.tm.tasks) = n + 1
                     /\ SubSeq(o.w.tm.tasks, 1, n) = tm.tasks
                     /\ ~o.w.tm.tasks[n + 1].completed
                     /\ o.ret = Value(o.w.tm.tasks[n + 1])
                ELSE /\ o.threw
                     /\ o.w.tm.tasks = tm.tasks
                     /\ o.w.store = store)
    /\ [][AddTask =>
            \/ tm'.tasks = tm.tasks /\ store' = store
            \/ /\ Len(tm'.tasks) = Len(tm.tasks) + 1
               /\ SubSeq(tm'.tasks, 1, Len(tm.tasks)) = tm.tasks
               /\ ~tm'.tasks[Len(tm'.tasks)].completed]_vars

\* The saved task, completed, is followed by a task added at this instant.
C14_Witness ==
    /\ Len(tm.tasks) = 2
    /\ tm.tasks[1] = SavedTask
    /\ tm.tasks[2].id = now
    /\ ~tm.tasks[2].completed
    /\ store[TASKS] = JSONstringify(tm.tasks)

\* C15: no two tasks of the collection have the same id, in every reachable
\* state.
C15_UniqueTaskIds ==
    \A i, j \in 1..Len(tm.tasks) :
        i # j => tm.tasks[i].id # tm.tasks[j].id

\* C16: from every state and for every valid input, addTask, then toggleTask
\* of the new id, then deleteTask of the new id leaves the tasks that were
\* there before the add.
C16_AddToggleDelete ==
    \A taskData \in TaskInputs :
        ValidTaskData(taskData) =>
            LET added == addTask(World, taskData)
                id == added.ret.val.id
                toggled == toggleTask(added.w, id)
                deleted == deleteTask(toggled.w, id)
            IN  deleted.w.tm.tasks = tm.tasks

\* C17: toggleTask and deleteTask never throw; with an id no task has they
\* leave the collection as it was; toggleTask with an id some task has flips
\* completed of one task with that id and changes nothing else.
C17_ToggleDeleteById ==
    \A id \in TaskIds :
        LET toggled == toggleTask(World, id)
            deleted == deleteTask(World, id)
            found == Matching(tm.tasks, id)
        IN  /\ ~toggled.threw
            /\ ~deleted.threw
            /\ found = {} =>
                   /\ toggled.w.tm.tasks = tm.tasks
                   /\ deleted.w.tm.tasks = tm.tasks
            /\ found # {} =>
                   \E i \in found :
                       toggled.w.tm.tasks =
                           [tm.tasks EXCEPT ![i].completed = ~@]

\* The saved task, toggled back to pending.
C17_Witness ==
    /\ tm.tasks = <<[SavedTask EXCEPT !.completed = FALSE]>>
    /\ store[TASKS] = JSONstringify(tm.tasks)

\* The number of positions of s that hold x.
Count(s, x) == Cardinality({i \in 1..Len(s) : s[i] = x})

Range(s) == {s[i] : i \in 1..Len(s)}

\* C18: every task is in exactly one of the 'pendientes' and 'completadas'
\* results, and the two together hold what the 'todas' result holds.
C18_FiltersPartition ==
    LET all == getFilteredTasks([tm EXCEPT !.currentFilter = "todas"])
        pending == getFilteredTasks([tm EXCEPT !.currentFilter = "pendientes"])
        completed ==
            getFilteredTasks([tm EXCEPT !.currentFilter = "completadas"])
    IN  \A x \in Range(all) \cup Range(pending) \cup Range(completed) :
            /\ Count(pending, x) + Count(completed, x) = Count(all, x)
            /\ Count(pending, x) = 0 \/ Count(completed, x) = 0

\* A completed and a pending task, shown under the 'completadas' filter.
C18_Witness ==
    /\ Len(tm.tasks) = 2
    /\ tm.tasks[1].completed
    /\ ~tm.tasks[2].completed
    /\ tm.currentFilter = "completadas"
    /\ dom.taskList = Html(<<createTaskHTML(tm.tasks[1])>>)

\* a is b with some elements left out, the others in the same order.
RECURSIVE IsSubseq(_, _)
IsSubseq(a, b) ==
    IF a = <<>> THEN TRUE
    ELSE IF b = <<>> THEN FALSE
    ELSE IF Head(a) = Head(b) THEN IsSubseq(Tail(a), Tail(b))
    ELSE IsSubseq(a, Tail(b))

\* C19: this.tasks stays in insertion order: addTask appends at the end,
\* deleteTask keeps the remaining tasks in their order, toggleTask keeps
\* every position, and no filter or render (task list, pomodoro selector,
\* upcoming tasks, calendar, dashboard) changes the tasks or the store.
C19_InsertionOrder ==
    /\ [][(tm'.tasks # tm.tasks \/ store' # store) =>
            /\ AddTask => SubSeq(tm'.tasks, 1, Len(tm'.tasks) - 1) = tm.tasks
            /\ DeleteTask => IsSubseq(tm'.tasks, tm.tasks)
            /\ ToggleTask =>
                  /\ Len(tm'.tasks) = Len(tm.tasks)
                  /\ \A i \in 1..Len(tm.tasks) :
                         [tm'.tasks[i] EXCEPT !.completed = FALSE] =
                             [tm.tasks[i] EXCEPT !.completed = FALSE]
            /\ ~(FilterTasks \/ ShowSection)]_vars
    /\ [](/\ renderTasks(World).tm.tasks = tm.tasks
          /\ populatePomodoroTasks(World).tm.tasks = tm.tasks
          /\ renderUpcomingTasks(World).w = World
          /\ renderCalendar(World).w = World
          /\ updateDashboard(World).w = World)

\* The later-dated task was added first: the selector lists the two by
\* date, the collection keeps them as added.
C19_Witness ==
    /\ Len(tm.tasks) = 2
    /\ NewDate(tm.tasks[1].date) > NewDate(tm.tasks[2].date)
    /\ dom.pomodoroTask =
           Html(<<[value |-> tm.tasks[2].id, title |-> tm.tasks[2].title],
                  [value |-> tm.tasks[1].id, title |-> tm.tasks[1].title]>>)

\* C20: with setItem not failing, in every state loading a manager's key
\* gives the manager's in-memory tasks, flashcards, mood history or stats,
\* and every step that changes one of them (addTask, toggleTask, deleteTask,
\* addFlashcard, markReviewed, selectMood, the completion of a focus period)
\* leaves its JSON text under the manager's key.
C20_StoredEqualsInMemory ==
    /\ [](~setItemThrows =>
            /\ TaskManager_load(store) = tm.tasks
            /\ FlashcardManager_load(store) = fm.flashcards
            /\ MoodManager_load(store) = mm.moodHistory
            /\ load(store) = pm.stats)
    /\ [][~setItemThrows =>
            /\ tm'.tasks # tm.tasks => store'[TASKS] = JSONstringify(tm'.tasks)
            /\ fm'.flashcards # fm.flashcards =>
                   store'[FLASHCARDS] = JSONstringify(fm'.flashcards)
            /\ mm'.moodHistory # mm.moodHistory =>
                   store'[MOODS] = JSONstringify(mm'.moodHistory)
            /\ pm'.stats # pm.stats =>
                   store'[POMODORO_STATS] = JSONstringify(pm'.stats)]_vars

\* A card reviewed twice, with the count in the store.
C20_Witness ==
    /\ scope = "flashcards"
    /\ Len(fm.flashcards) = 1
    /\ fm.flashcards[1].reviews = MaxReviews
    /\ fm.flashcards[1].id = 0
    /\ store[FLASHCARDS] = JSONstringify(fm.flashcards)

\* C21: while setItem throws, Storage.set leaves every entry of the store
\* as it was (so Storage.get gives for every key what it gave before), no
\* step changes the store, and addTask, toggleTask and deleteTask still make
\* their in-memory change without throwing.
C21_WriteFailure ==
    /\ [][setItemThrows => store' = store]_vars
    /\ [](\A key \in StorageKeys :
            LET after == StorageSet(store, TRUE, key, tm.tasks)
            IN  /\ after = store
                /\ \A other \in StorageKeys :
                       StorageGet(after, other) = StorageGet(store, other))
    /\ [](setItemThrows =>
            /\ \A taskData \in TaskInputs :
                   ValidTaskData(taskData) =>
                       LET o == addTask(World, taskData)
                       IN  /\ ~o.threw
                           /\ o.w.store = store
                           /\ o.w.tm.tasks =
                                  Append(tm.tasks, NewTask(taskData, now))
            /\ \A id \in TaskIds :
                   LET toggled == toggleTask(World, id)
                       deleted == deleteTask(World, id)
                   IN  /\ ~toggled.threw /\ toggled.w.store = store
                       /\ ~deleted.threw /\ deleted.w.store = store
                       /\ Matching(tm.tasks, id) # {} =>
                              /\ toggled.w.tm.tasks # tm.tasks
                              /\ Len(deleted.w.tm.tasks) < Len(tm.tasks))

\* A task added while setItem throws: it is in memory, the store has no
\* entry for the tasks.
C21_Witness ==
    /\ setItemThrows
    /\ Len(tm.tasks) = 1
    /\ tm.tasks[1].id = now
    /\ store[TASKS] = Missing
    /\ StorageGet(store, FLASHCARDS) = Value(<<>>)

\* C22: Storage.get answers null, without raising, for a key whose entry is
\* missing or is text JSON.parse rejects; the managers of a page loaded on
\* such a store start with no tasks, no flashcards, no mood entries, or with
\* every stat at zero.
C22_AbsentMeansEmpty ==
    \A key \in StorageKeys :
        \A raw \in {Missing, Corrupt} :
            LET st == [store EXCEPT ![key] = raw]
                w == PageLoad(st)
            IN  /\ StorageGet(st, key) = Null
                /\ key = TASKS => w.tm.tasks = <<>>
                /\ key = FLASHCARDS => w.fm.flashcards = <<>>
                /\ key = MOODS => w.mm.moodHistory = <<>>
                /\ key = POMODORO_STATS =>
                       \A f \in DOMAIN w.pm.stats : w.pm.stats[f] = 0

\* The page loaded on a store whose tasks entry does not parse and that
\* has no entry for the pomodoro stats.
C22_Witness ==
    /\ store[TASKS] = Corrupt
    /\ store[POMODORO_STATS] = Missing
    /\ tm.tasks = <<>>
    /\ pm.stats = defaultStats
    /\ dom.taskList = EmptyState
    /\ scope = "tareas"

\* The effects of a call that left `data` under `key` in memory: the data
\* was handed to Storage.set, and no render read it before that.
PersistedBeforeRendered(log, key, data) ==
    \E i \in 1..Len(log) :
        /\ log[i] = [effect |-> "save", key |-> key, data |-> data]
        /\ \A j \in 1..(i - 1) :
               log[j] # [effect |-> "render", key |-> key, data |-> data]

\* C23 for the task, flashcard and mood managers: every call that changes
\* the collection saves the changed collection before any render reads it.
CollectionsPersistBeforeRender ==
    /\ \A taskData \in TaskInputs :
           LET r == addTask(World, taskData).w
           IN  r.tm.tasks # tm.tasks =>
                   PersistedBeforeRendered(r.log, TASKS, r.tm.tasks)
    /\ \A id \in TaskIds :
           LET toggled == toggleTask(World, id).w
               deleted == deleteTask(World, id).w
           IN  /\ toggled.tm.tasks # tm.tasks =>
                      PersistedBeforeRendered(toggled.log, TASKS, toggled.tm.tasks)
               /\ deleted.tm.tasks # tm.tasks =>
                      PersistedBeforeRendered(deleted.log, TASKS, deleted.tm.tasks)
    /\ \A cardData \in CardInputs :
           LET r == addFlashcard(World, cardData).w
           IN  r.fm.flashcards # fm.flashcards =>
                   PersistedBeforeRendered(r.log, FLASHCARDS, r.fm.flashcards)
    /\ LET r == markReviewed(World).w
       IN  r.fm.flashcards # fm.flashcards =>
               PersistedBeforeRendered(r.log, FLASHCARDS, r.fm.flashcards)
    /\ \A level \in MoodInputs :
           LET r == selectMood(World, level).w
           IN  r.mm.moodHistory # mm.moodHistory =>
                   PersistedBeforeRendered(r.log, MOODS, r.mm.moodHistory)

\* C23: in every mutating operation of every manager the changed data is
\* saved before any render reads it; for the timer, the callback that finds
\* the period over (complete) saves the new stats before showing them.
C23_MutatePersistRender ==
    /\ CollectionsPersistBeforeRender
    /\ (timers # {} /\ Expired) =>
           LET r == intervalCallback(World)
           IN  r.pm.stats # pm.stats =>
                   PersistedBeforeRendered(r.log, POMODORO_STATS, r.pm.stats)

ValidCardData(cardData) ==
    cardData.subject # "" /\ cardData.question # "" /\ cardData.answer # ""

\* C25: with no cards, nextCard() and previousCard() do not throw and leave
\* the cursor at the number it was; a card added afterwards can be marked
\* reviewed: neither call throws, and the card then has one review.
C25_EmptyNavigationIsNoOp ==
    Len(fm.flashcards) = 0 =>
        LET nx == nextCard(World)
            pv == previousCard(World)
        IN  /\ ~nx.threw
            /\ ~pv.threw
            /\ fm.currentCardIndex # NaN
            /\ nx.w.fm.currentCardIndex = fm.currentCardIndex
            /\ pv.w.fm.currentCardIndex = fm.currentCardIndex
            /\ \A cardData \in CardInputs :
                   ValidCardData(cardData) =>
                       \A moved \in {nx.w, pv.w} :
                           LET added == addFlashcard(moved, cardData)
                               marked == markReviewed(added.w)
                           IN  /\ ~added.threw
                               /\ ~marked.threw
                               /\ Len(marked.w.fm.flashcards) = 1
                               /\ marked.w.fm.flashcards[1].reviews = 1

\* What markReviewed() is to do with n > 0 cards and the cursor on card i
\* (counted from 1): one more review and the instant of the review on that
\* card, the other cards as they were, the cards saved, the cursor on the
\* next card or back on the first.
Reviewed(r, n, i) ==
    /\ ~r.threw
    /\ Len(r.w.fm.flashcards) = n
    /\ r.w.fm.flashcards[i] =
           [fm.flashcards[i] EXCEPT !.reviews = @ + 1,
                                    !.lastReviewed = Value(toISOString(now))]
    /\ \A j \in (1..n) \ {i} : r.w.fm.flashcards[j] = fm.flashcards[j]
    /\ ~setItemThrows => r.w.store[FLASHCARDS] = JSONstringify(r.w.fm.flashcards)
    /\ r.w.fm.currentCardIndex = IF i = n THEN 0 ELSE i

\* markReviewed() without cards: nothing changes and nothing is written.
NothingReviewed(r) ==
    /\ ~r.threw
    /\ r.w.fm = fm
    /\ r.w.store = store
    /\ r.w.log = <<>>

\* C26: markReviewed() with cards present adds one review to the card at
\* the cursor, sets its review instant, leaves the other cards alone, saves
\* and moves the cursor on with wrap; with no cards it changes nothing and
\* writes nothing.
C26_MarkReviewed ==
    LET n == Len(fm.flashcards)
        i == fm.currentCardIndex + 1
        r == markReviewed(World)
    IN  IF n = 0
        THEN NothingReviewed(r)
        ELSE i \in 1..n /\ Reviewed(r, n, i)

\* C26 in the states where the cursor is on a card.
MarkReviewedOnACard ==
    LET n == Len(fm.flashcards)
        i == fm.currentCardIndex + 1
        r == markReviewed(World)
    IN  IF n = 0
        THEN NothingReviewed(r)
        ELSE i \in 1..n => Reviewed(r, n, i)

\* C27: addFlashcard with an empty subject, question or answer throws and
\* leaves the cards, the cursor and the store as they were; in every
\* reachable state every card has a non-empty subject, question and answer
\* and a review count of at least 0.
C27_AddFlashcardValidates ==
    /\ \A cardData \in CardInputs :
           ~ValidCardData(cardData) =>
               LET r == addFlashcard(World, cardData)
               IN  /\ r.threw
                   /\ r.w.fm = fm
                   /\ r.w.store = store
                   /\ r.w.log = <<>>
    /\ \A i \in 1..Len(fm.flashcards) :
           /\ fm.flashcards[i].subject # ""
           /\ fm.flashcards[i].question # ""
           /\ fm.flashcards[i].answer # ""
           /\ fm.flashcards[i].reviews >= 0

\* A card added at this instant is in the collection, and an add with an
\* empty subject is refused there.
C27_Witness ==
    /\ Len(fm.flashcards) = 2
    /\ fm.flashcards[2].id = now
    /\ fm.flashcards[2].reviews = 0
    /\ addFlashcard(World, [subject |-> "", question |-> "2+2",
                            answer |-> "4"]).threw

\* C28: every entry of the mood history has a level in 1..5, and selectMood
\* with a level outside 1..5 appends nothing and leaves the history and the
\* store as they were.
C28_LevelInRange ==
    /\ \A i \in 1..Len(mm.moodHistory) : mm.moodHistory[i].mood \in 1..5
    /\ \A level \in MoodInputs \ (1..5) :
           LET r == selectMood(World, level)
           IN  /\ r.w.mm.moodHistory = mm.moodHistory
               /\ r.w.store = store

\* C29: getAverageMood(days) is 0 for an empty history; otherwise, with S
\* the sum of the levels of the last min(days, length) entries and k their
\* number, it is the one-decimal number nearest to S / k (r tenths with
\* |10 S - r k| <= k / 2); a window whose entries all have level L gives
\* exactly L.  For every days in 1..7.
C29_AverageMood ==
    \A days \in DaysInputs :
        LET h == mm.moodHistory
            k == IF days < Len(h) THEN days ELSE Len(h)
            window == [i \in 1..k |-> h[Len(h) - k + i].mood]
            S == SumOfMoods([i \in 1..k |-> [mood |-> window[i]]])
            r == getAverageMood(h, days)
        IN  IF Len(h) = 0
            THEN r = 0
            ELSE /\ 2 * (10 * S - r * k) <= k
                 /\ 2 * (r * k - 10 * S) <= k
                 /\ \A L \in MoodInputs :
                        (\A i \in 1..k : window[i] = L) => r = 10 * L

\* A history whose last three levels have the mean 11/3, given as 3.7, and
\* whose last two are both 4, given as 4.
C29_Witness ==
    /\ Len(mm.moodHistory) >= 3
    /\ SumOfMoods(SliceLast(mm.moodHistory, 3)) = 11
    /\ getAverageMood(mm.moodHistory, 3) = 37
    /\ getAverageMood(mm.moodHistory, 2) = 40

\* C30: getMoodTrend() is 'neutral' exactly when there are fewer than 2
\* entries; otherwise it is 'improving' when the mean of the last 3 levels
\* is greater than the mean of the last 6, 'declining' when it is less, and
\* 'stable' exactly when the two means are equal.  The means S3 / k3 and
\* S6 / k6 are compared exactly, as S3 * k6 against S6 * k3.
C30_Trend ==
    LET h == mm.moodHistory
        recent3 == SliceLast(h, 3)
        recent6 == SliceLast(h, 6)
        lhs == SumOfMoods(recent3) * Len(recent6)
        rhs == SumOfMoods(recent6) * Len(recent3)
        trend == getMoodTrend(h)
    IN  /\ trend = "neutral" <=> Len(h) < 2
        /\ Len(h) >= 2 =>
               /\ lhs > rhs => trend = "improving"
               /\ lhs < rhs => trend = "declining"
               /\ trend = "stable" <=> lhs = rhs

\* C30 as the code has it: the means are compared after each was rounded
\* to one decimal.
TrendOfRoundedAverages ==
    LET h == mm.moodHistory
        average == getAverageMood(h, 3)
        previousAverage == getAverageMood(h, 6)
        trend == getMoodTrend(h)
    IN  /\ trend = "neutral" <=> Len(h) < 2
        /\ Len(h) >= 2 =>
               /\ trend = "improving" <=> average > previousAverage
               /\ trend = "declining" <=> average < previousAverage
               /\ trend = "stable" <=> average = previousAverage

\* C31: the weekly count is the number of completed tasks dated from the
\* most recent Sunday 00:00 up to the current instant (a completed task
\* dated before that Sunday or after now is not counted), and the percent
\* is min(count / 15 * 100, 100).
C31_WeeklyCount ==
    LET thisWeek == {i \in 1..Len(tm.tasks) :
                        /\ tm.tasks[i].completed
                        /\ NewDate("2025-10-19") <= NewDate(tm.tasks[i].date)
                        /\ NewDate(tm.tasks[i].date) <= now}
        count == Cardinality(thisWeek)
        shown == weekProgress(World)
    IN  /\ shown.weekTasks = count
        /\ 3 * 100 * count <= 15 * 100 => shown.weekPercentThirds * 15 = 3 * 100 * count
        /\ 3 * 100 * count > 15 * 100 => shown.weekPercentThirds = 3 * 100

\* C32: a focus period that is reset before it expires ends the streak: when
\* the period started again after the reset has run out, the completion
\* does not extend the streak there was before the reset (currentStreak
\* counts that completion only).
C32_ResetBreaksStreak ==
    (pm.currentMode = "focus" /\ pm.isRunning /\ pm.time > 0
        /\ pm.stats.currentStreak >= 1) =>
        LET restarted == start(reset(World))
            ranOut == [restarted EXCEPT !.pm.time = 0]
            completed == intervalCallback(ranOut)
        IN  /\ completed.pm.stats.pomodoroCount = pm.stats.pomodoroCount + 1
            /\ completed.pm.stats.currentStreak = 1

\* C33: a focus period completed after setMode('focus', minutes) adds that
\* minutes value to totalFocusTime (25 only when the period was set to 25).
C33_FocusMinutesOfThePeriod ==
    ~pm.isRunning =>
        \A minutes \in MinutesInputs :
            minutes > 0 =>
                LET started == start(setMode(World, "focus", minutes))
                    ranOut == [started EXCEPT !.pm.time = 0]
                    completed == intervalCallback(ranOut)
                IN  completed.pm.stats.totalFocusTime =
                        pm.stats.totalFocusTime + minutes

\* C34: the tick that takes the countdown from 1 to 0 also runs complete():
\* after it the timer is not running and no interval is live; no tick
\* leaves the timer running with 0 seconds on the countdown.
C34_ExpiryOnReachingZero ==
    [][Tick =>
        /\ (pm.isRunning /\ pm.time = 1) => (~pm'.isRunning /\ timers' = {})
        /\ ~(pm'.isRunning /\ pm'.time = 0)]_vars

\* C35: after every step that changed the tasks (an add, a toggle, a
\* delete), whatever the filter, the header shows the number of completed
\* tasks and the number of tasks of the collection as it then is, also when
\* the filtered view is empty.
C35_HeaderStatsCurrent ==
    [][tm'.tasks # tm.tasks =>
        dom'.headerTasks =
            Text(<<Len(SelectSeq(tm'.tasks, LAMBDA t : t.completed)),
                   Len(tm'.tasks)>>)]_vars

\* C35 for the steps after which the filtered view shows a task.
HeaderStatsCurrentWhenListed ==
    [][(tm'.tasks # tm.tasks /\ Len(getFilteredTasks(tm')) > 0) =>
        dom'.headerTasks =
            Text(<<Len(SelectSeq(tm'.tasks, LAMBDA t : t.completed)),
                   Len(tm'.tasks)>>)]_vars

\* What studySubject(subject) is to do with the cursor: unchanged when no
\* card has the subject, otherwise on the first card of the subject.
StudySubjectSetsCursor ==
    \A subject \in SubjectInputs :
        LET subjectCards == {i \in 1..Len(fm.flashcards) :
                                fm.flashcards[i].subject = subject}
            r == studySubject(World, subject).w
        IN  /\ r.fm.flashcards = fm.flashcards
            /\ subjectCards = {} =>
                   r.fm.currentCardIndex = fm.currentCardIndex
            /\ subjectCards # {} =>
                   /\ r.fm.currentCardIndex + 1 \in subjectCards
                   /\ \A j \in subjectCards : r.fm.currentCardIndex + 1 <= j

\* C36: the cursor is an index of the collection, 0 <= cursor < size, when
\* there are cards, and 0 when there are none; studySubject leaves it alone
\* for a subject no card has and otherwise puts it on the first card of the
\* subject.
C36_CursorInRange ==
    /\ IF Len(fm.flashcards) = 0
       THEN fm.currentCardIndex = 0
       ELSE fm.currentCardIndex \in 0..(Len(fm.flashcards) - 1)
    /\ StudySubjectSetsCursor

\* C36 but for the cursor NaN that nextCard() and previousCard() leave on
\* an empty collection.
CursorInRangeOrNaN ==
    /\ fm.currentCardIndex # NaN =>
           IF Len(fm.flashcards) = 0
           THEN fm.currentCardIndex = 0
           ELSE fm.currentCardIndex \in 0..(Len(fm.flashcards) - 1)
    /\ StudySubjectSetsCursor

\* C37: a countdown that was started and is left alone ends: complete()
\* eventually runs (the timer is no longer running).  The tick that runs
\* complete() leaves the timer not running, no interval live, and the
\* countdown at the default duration of the mode it selected; a tick never
\* sets the timer running, so completion runs once per start().
C37_CountdownCompletes ==
    /\ (pm.isRunning /\ pm.stats.pomodoroCount < MaxPomodoros) ~> ~pm.isRunning
    /\ [][Tick =>
            /\ Expired =>
                   /\ ~pm'.isRunning
                   /\ timers' = {}
                   /\ pm'.time = modes[pm'.currentMode].time * SecondsPerMinute
            /\ pm'.isRunning => pm.isRunning]_vars
    /\ [](~pm.isRunning => timers = {})

\* A focus period that ran out and was completed: the break is selected
\* and the timer stands still.
C37_Witness ==
    /\ ~pm.isRunning
    /\ timers = {}
    /\ pm.currentMode = "short"
    /\ pm.time = modes["short"].time * SecondsPerMinute
    /\ pm.stats.pomodoroCount = 1
    /\ modeLog = <<"focus", "short">>

\* C38: with exactly 2 or 3 entries getMoodTrend() is 'stable' whatever the
\* levels, the last 3 and the last 6 entries being the same entries;
\* 'improving' and 'declining' are returned only with 4 or more entries.
C38_ShortHistoryIsStable ==
    LET h == mm.moodHistory
    IN  /\ Len(h) \in {2, 3} =>
               /\ SliceLast(h, 3) = SliceLast(h, 6)
               /\ getMoodTrend(h) = "stable"
        /\ getMoodTrend(h) \in {"improving", "declining"} => Len(h) >= 4

\* Three entries of rising levels, for which the trend is 'stable'.
C38_Witness ==
    /\ Len(mm.moodHistory) = 3
    /\ mm.moodHistory[1].mood < mm.moodHistory[2].mood
    /\ mm.moodHistory[2].mood < mm.moodHistory[3].mood
    /\ getMoodTrend(mm.moodHistory) = "stable"

====
